---------------------------- MODULE Spec2Model ----------------------------
(***************************************************************************)
(* A model of the Mandelbrot programs Mandelbrot_interactive.py and        *)
(* Mandelbrot_animation.py: the escape-time kernel mandel, the row-band    *)
(* evaluation mandelbrot_for_parallel and its reassembly, the click        *)
(* handler onclick, and the frame loop of the animation's main method.     *)
(*                                                                         *)
(* Numbers.  The programs compute in IEEE double precision.  The model     *)
(* computes on a fixed-point grid: a real value v is the integer           *)
(* v * Scale, Scale = 2^FracBits.  Every product and quotient is rounded   *)
(* to the nearest grid value, ties to even, as a double-precision result   *)
(* is rounded to the nearest double; sums and differences of grid values   *)
(* are exact, and there is no overflow.                                    *)
(***************************************************************************)
EXTENDS Integers, Sequences, FiniteSets, TLC

VARIABLES
    \* ---- the kernel under test: one point c and the calls made on it
    c, calls,
    \* ---- globals shared by both programs
    resolution, threshold, xmin, xmax, ymin, ymax, num_processes, yranges,
    \* ---- one grid evaluation (the executor.map block)
    gpc, futures, collected, complete_parray,
    \* ---- the interactive session: the zoom, the view on display, the last
    \*      events delivered to onclick, and how many were delivered
    zoom, shown, events, nclicks,
    \* ---- the animation: the AnimatedFrames folder and, per run of the
    \*      program, its place in the frame loop
    files, pc, i, num_frames, frames, rendered, starts,
    \* ---- animate(i): its locals new_xmin .. new_threshold, and the Field
    \*      it passed to ax.imshow
    new_view, img

vars == <<c, calls, resolution, threshold, xmin, xmax, ymin, ymax,
          num_processes, yranges, gpc, futures, collected, complete_parray,
          zoom, shown, events, nclicks,
          files, pc, i, num_frames, frames, rendered, starts,
          new_view, img>>

kernelVars == <<c, calls>>
globalVars == <<resolution, threshold, xmin, xmax, ymin, ymax,
                num_processes, yranges>>
gridVars   == <<gpc, futures, collected, complete_parray>>
clickVars  == <<zoom, shown, events, nclicks>>
animVars   == <<files, pc, i, num_frames, frames, rendered, starts,
                new_view, img>>

-----------------------------------------------------------------------------
(* Bounds of the model *)

\* binary digits after the point of the fixed-point grid
FracBits == 3
\* largest iteration cap passed to mandel
MaxThreshold == 4
\* largest number of rows split into bands on their own
MaxSplitRows == 12
\* largest os.cpu_count() when rows are split on their own
MaxSplitCpus == 8
\* largest grid side when a grid is evaluated
MaxRes == 3
\* largest os.cpu_count() when a grid is evaluated
MaxGridCpus == 2
\* largest number of clicks in an interactive session
MaxClicks == 3
\* largest number of clicks in a session of clicks inside the plot only
MaxDeepClicks == 5
\* frames per doubling of the zoom: 1/delta
FramesPerOctave == 2
\* largest log2(zoom) an animation is asked for
MaxZoomExp == 2
\* largest number of times the animation program is started
MaxStarts == 3

-----------------------------------------------------------------------------
(* Arithmetic *)

RECURSIVE Pow2(_)
Pow2(n) == IF n <= 0 THEN 1 ELSE 2 * Pow2(n - 1)

Scale == Pow2(FracBits)

\* a / b for b > 0, rounded to the nearest integer, ties to even
RoundDiv(a, b) ==
    LET q == a \div b
        r == a % b
    IN  IF 2 * r < b THEN q
        ELSE IF 2 * r > b THEN q + 1
        ELSE IF q % 2 = 0 THEN q ELSE q + 1

\* the rounded product of two grid values
FMul(x, y) == RoundDiv(x * y, Scale)

\* the grid value of an integer
Fix(n) == n * Scale

-----------------------------------------------------------------------------
(* mandel: the escape-time kernel.  A complex value is <<re, im>>. *)

\* z.real*z.real + z.imag*z.imag, as the kernel computes it
NormSq(z) == FMul(z[1], z[1]) + FMul(z[2], z[2])

\* (z * z) + c
Step(z, cc) == << FMul(z[1], z[1]) - FMul(z[2], z[2]) + cc[1],
                  FMul(z[1], z[2]) + FMul(z[2], z[1]) + cc[2] >>

\* the iterations n .. stop - 1 of "for n in range(threshold)", entered with
\* z: whether one of them returned and the n it returned, or else the z they
\* leave.  A span of several iterations is its first half followed, when
\* that did not return, by its second half.
RECURSIVE LoopSpan(_, _, _, _)
LoopSpan(z, cc, n, stop) ==
    IF stop <= n THEN [returned |-> FALSE, n |-> 0, z |-> z]
    ELSE IF stop = n + 1
        THEN IF NormSq(z) > Fix(4)
                THEN [returned |-> TRUE, n |-> n, z |-> z]
                ELSE [returned |-> FALSE, n |-> 0, z |-> Step(z, cc)]
    ELSE LET mid   == (n + stop) \div 2
             first == LoopSpan(z, cc, n, mid)
         IN  IF first.returned THEN first
             ELSE LoopSpan(first.z, cc, mid, stop)

\* the loop from iteration n on, and the "return 0" after it
MandelLoop(z, cc, n, thr) ==
    LET span == LoopSpan(z, cc, n, thr)
    IN  IF span.returned THEN span.n ELSE 0

\* A kernel that updates z before it tests it.
RECURSIVE MandelLoopUpdateFirst(_, _, _, _)
MandelLoopUpdateFirst(z, cc, n, thr) ==
    IF n >= thr THEN 0
    ELSE IF NormSq(Step(z, cc)) > Fix(4) THEN n
    ELSE MandelLoopUpdateFirst(Step(z, cc), cc, n + 1, thr)

mandelUpdateFirst(cc, thr) == MandelLoopUpdateFirst(<<0, 0>>, cc, 0, thr)

\* A kernel that reports the iterations left instead of the iterations used.
mandelCountDown(cc, thr) ==
    LET n == MandelLoop(<<0, 0>>, cc, 0, thr)
    IN  IF n = 0 THEN 0 ELSE thr - n

mandel(cc, thr) == MandelLoop(<<0, 0>>, cc, 0, thr)

-----------------------------------------------------------------------------
(* States in which a part of the model is not in use *)

KernelIdle == c = <<0, 0>> /\ calls = <<>>

GlobalsIdle ==
    /\ resolution = 0 /\ threshold = 0
    /\ xmin = 0 /\ xmax = 0 /\ ymin = 0 /\ ymax = 0
    /\ num_processes = 0 /\ yranges = <<>>

GridIdle ==
    /\ gpc = "idle" /\ futures = <<>>
    /\ collected = <<>> /\ complete_parray = <<>>

ClickIdle == zoom = 0 /\ shown = <<>> /\ events = <<>> /\ nclicks = 0

AnimIdle ==
    /\ files = <<>> /\ pc = <<>> /\ i = <<>> /\ num_frames = <<>>
    /\ frames = <<>> /\ rendered = <<>> /\ starts = 0
    /\ new_view = <<>> /\ img = <<>>

-----------------------------------------------------------------------------
(* The kernel on its own: a point c, and up to two calls of mandel on it *)

\* the points tried: every grid point of the square [-2.5, 2.5]^2
KernelCoords == (0 - (5 * Scale) \div 2) .. ((5 * Scale) \div 2)

InitKernel ==
    /\ c \in KernelCoords \X KernelCoords
    /\ calls = <<>>
    /\ GlobalsIdle /\ GridIdle /\ ClickIdle /\ AnimIdle

KernelCall(t) ==
    /\ Len(calls) < 2
    /\ calls' = Append(calls, [threshold |-> t, result |-> mandel(c, t)])
    /\ UNCHANGED <<c, globalVars, gridVars, clickVars, animVars>>

NextKernel == \E t \in 0 .. MaxThreshold : KernelCall(t)

SpecKernel == InitKernel /\ [][NextKernel]_vars

\* |c| > 2, exactly: re^2 + im^2 > 4 in the integers
ExactlyOutside(cc) == cc[1] * cc[1] + cc[2] * cc[2] > 4 * Scale * Scale

\* C6 as stated: for every c with |c| > 2 and every threshold >= 1, mandel
\* returns a value greater than 0.
C6_ImmediateDivergence ==
    \A k \in 1 .. Len(calls) :
        (ExactlyOutside(c) /\ calls[k].threshold >= 1) => calls[k].result > 0

\* C6 as amended: for every c whose squared magnitude, as the kernel computes
\* it (c.real*c.real + c.imag*c.imag, rounded), exceeds 4 and every
\* threshold >= 2, mandel returns a value greater than 0.
C6_ImmediateDivergenceFrom2 ==
    \A k \in 1 .. Len(calls) :
        (NormSq(c) > Fix(4) /\ calls[k].threshold >= 2) => calls[k].result > 0

C6_Witness ==
    /\ Len(calls) >= 1
    /\ NormSq(c) > Fix(4)
    /\ calls[1].threshold >= 2
    /\ calls[1].result = 1

\* C7: for every c and thresholds t1 < t2, if mandel(c, t1) is not 0 then
\* mandel(c, t2) = mandel(c, t1).
C7_CapMonotone ==
    \A j, k \in 1 .. Len(calls) :
        (calls[j].threshold < calls[k].threshold /\ calls[j].result # 0)
            => calls[k].result = calls[j].result

C7_Witness ==
    /\ Len(calls) = 2
    /\ calls[1].threshold < calls[2].threshold
    /\ calls[1].result > 1
    /\ calls[2].result = calls[1].result

\* z_n of the orbit z_0 = 0, z_{k+1} = z_k^2 + c
RECURSIVE Orbit(_, _)
Orbit(cc, n) == IF n = 0 THEN <<0, 0>> ELSE Step(Orbit(cc, n - 1), cc)

Escaped(cc, n) == NormSq(Orbit(cc, n)) > Fix(4)

\* C14: mandel returns 0 or the least n with 1 <= n < threshold at which the
\* orbit has |z_n|^2 > 4, and 0 exactly when there is no such n; a returned 0
\* never stands for an escape at iteration 0, and mandel(0, threshold) = 0.
C14_EscapeSentinel ==
    \A k \in 1 .. Len(calls) :
        LET t == calls[k].threshold
            n == calls[k].result
        IN  /\ ~Escaped(c, 0)
            /\ n = 0 \/ (1 <= n /\ n < t)
            /\ n # 0 => Escaped(c, n) /\ \A m \in 1 .. n - 1 : ~Escaped(c, m)
            /\ n = 0 => \A m \in 1 .. t - 1 : ~Escaped(c, m)
            /\ c = <<0, 0>> => n = 0

\* a point still inside at the lower cap (0 returned) whose escape at
\* iteration 2 or later the higher cap finds
C14_Witness ==
    /\ Len(calls) = 2
    /\ calls[1].threshold >= 2 /\ calls[1].result = 0
    /\ calls[2].result >= 2
    /\ Escaped(c, calls[2].result)

-----------------------------------------------------------------------------
(* Row bands: num_processes and np.array_split(range(resolution), ...) *)

Min(a, b) == IF a < b THEN a ELSE b

\* int(1.5*os.cpu_count())
NumProcesses(cpus) == (3 * cpus) \div 2

\* Division points of a split that gives the remainder to the last band.
DivPointRemainderLast(n, k, j) == IF j = k THEN n ELSE j * (n \div k)

\* np.array_split's division points: the first n % k sections hold
\* n \div k + 1 elements, the others n \div k
DivPoint(n, k, j) == j * (n \div k) + Min(j, n % k)

\* np.array_split(range(n), k): k bands of row indices
ArraySplit(n, k) ==
    [j \in 1 .. k |->
        [m \in 1 .. (DivPoint(n, k, j) - DivPoint(n, k, j - 1)) |->
            DivPoint(n, k, j - 1) + m - 1]]

\* the splitting lines of the main methods
SplitRows(cpus) ==
    /\ resolution > 0
    /\ num_processes = 0
    /\ num_processes' = NumProcesses(cpus)
    /\ yranges' = ArraySplit(resolution, num_processes')
    /\ UNCHANGED <<resolution, threshold, xmin, xmax, ymin, ymax>>
    /\ UNCHANGED <<kernelVars, gridVars, clickVars, animVars>>

InitSplit ==
    /\ resolution \in 1 .. MaxSplitRows
    /\ threshold = 0 /\ xmin = 0 /\ xmax = 0 /\ ymin = 0 /\ ymax = 0
    /\ num_processes = 0 /\ yranges = <<>>
    /\ KernelIdle /\ GridIdle /\ ClickIdle /\ AnimIdle

NextSplit == \E cpus \in 1 .. MaxSplitCpus : SplitRows(cpus)

SpecSplit == InitSplit /\ [][NextSplit]_vars

\* the rows of all bands, in band order
RECURSIVE Flatten(_)
Flatten(ss) == IF ss = <<>> THEN <<>> ELSE Head(ss) \o Flatten(Tail(ss))

\* C3: the bands of range(resolution) are contiguous, ascending, pairwise
\* disjoint, cover exactly [0, resolution), and any two sizes differ by at
\* most one row.
C3_RowBandPartition ==
    num_processes >= 1 =>
        /\ Len(yranges) = num_processes
        /\ Flatten(yranges) = [m \in 1 .. resolution |-> m - 1]
        /\ \A j, k \in 1 .. Len(yranges) :
              Len(yranges[j]) - Len(yranges[k]) <= 1

C3_Witness ==
    /\ resolution = 10 /\ num_processes = 3
    /\ Len(yranges[1]) = 4 /\ Len(yranges[2]) = 3 /\ Len(yranges[3]) = 3

-----------------------------------------------------------------------------
(* mandelbrot_for_parallel and one grid evaluation (the executor.map block) *)

\* np.linspace(start, stop, num), indexed from 0
Linspace(start, stop, num) ==
    [k \in 0 .. num - 1 |->
        IF num > 1 /\ k = num - 1 THEN stop
        ELSE IF num > 1 THEN start + k * RoundDiv(stop - start, num - 1)
        ELSE start]

\* the escape counts of the rows of yrange, row by row, each row left to right
mandelbrot_for_parallel(x0, x1, y0, y1, thr, yrange) ==
    LET re == Linspace(x0, x1, resolution)
        im == Linspace(y0, y1, resolution)
    IN  [k \in 1 .. resolution * Len(yrange) |->
            mandel(<< re[(k - 1) % resolution],
                      im[yrange[((k - 1) \div resolution) + 1]] >>, thr)]

SeqRange(q) == {q[k] : k \in 1 .. Len(q)}

\* Bands taken as they finish, whichever finishes first.
CollectableAsCompleted(futs, col) ==
    {b \in 1 .. Len(futs) : futs[b].state # "running" /\ b \notin SeqRange(col)}

\* the band the iterator returned by executor.map yields next: the next one in
\* the order of submission, once it has finished
Collectable(futs, col) ==
    {b \in 1 .. Len(futs) : b = Len(col) + 1 /\ futs[b].state # "running"}

\* np.reshape(flat, [resolution, resolution]); a wrong size raises
Reshape(flat) ==
    [row \in 1 .. resolution |->
        [col \in 1 .. resolution |-> flat[(row - 1) * resolution + col]]]

\* executor.map(...): one call per band, submitted in the order of yranges
Dispatch ==
    /\ gpc = "idle"
    /\ num_processes > 0
    /\ futures' = [b \in 1 .. Len(yranges) |-> [state |-> "running", result |-> <<>>]]
    /\ collected' = <<>>
    /\ complete_parray' = <<>>
    /\ gpc' = "collecting"
    /\ UNCHANGED <<clickVars, animVars, kernelVars, globalVars>>

\* a worker returns the band it was given
WorkerFinish(b) ==
    /\ gpc = "collecting"
    /\ b \in 1 .. Len(futures)
    /\ futures[b].state = "running"
    /\ futures' = [futures EXCEPT ![b] =
            [state |-> "done",
             result |-> mandelbrot_for_parallel(xmin, xmax, ymin, ymax, threshold, yranges[b])]]
    /\ UNCHANGED <<clickVars, animVars, kernelVars, globalVars, gpc, collected, complete_parray>>

\* a worker fails (it is killed, it runs out of memory)
WorkerFail(b) ==
    /\ gpc = "collecting"
    /\ b \in 1 .. Len(futures)
    /\ futures[b].state = "running"
    /\ futures' = [futures EXCEPT ![b] = [state |-> "failed", result |-> <<>>]]
    /\ UNCHANGED <<clickVars, animVars, kernelVars, globalVars, gpc, collected, complete_parray>>

\* one turn of "for parray in parrays": concatenate the next band, or raise
Collect ==
    /\ gpc = "collecting"
    /\ \E b \in Collectable(futures, collected) :
          /\ collected' = Append(collected, b)
          /\ IF futures[b].state = "failed"
                THEN gpc' = "failed" /\ UNCHANGED complete_parray
                ELSE /\ complete_parray' = complete_parray \o futures[b].result
                     /\ gpc' = IF Len(collected') = Len(futures)
                                 THEN "collected" ELSE "collecting"
    /\ UNCHANGED <<clickVars, animVars, kernelVars, globalVars, futures>>

\* complete_parray = np.reshape(complete_parray, [resolution, resolution])
ReshapeField ==
    /\ gpc = "collected"
    /\ IF Len(complete_parray) = resolution * resolution
          THEN complete_parray' = Reshape(complete_parray) /\ gpc' = "done"
          ELSE gpc' = "failed" /\ UNCHANGED complete_parray
    /\ UNCHANGED <<clickVars, animVars, kernelVars, globalVars, futures, collected>>

\* the bounds tried
GridLows  == {Fix(0 - 2), 0 - ((3 * Scale) \div 2)}
GridHighs == {Fix(1), (3 * Scale) \div 2}

InitGrid ==
    /\ resolution \in 1 .. MaxRes
    /\ threshold \in 1 .. MaxThreshold
    /\ xmin \in GridLows /\ xmax \in GridHighs
    /\ ymin \in GridLows /\ ymax \in GridHighs
    /\ num_processes = 0 /\ yranges = <<>>
    /\ KernelIdle /\ GridIdle /\ ClickIdle /\ AnimIdle

NextGrid ==
    \/ \E cpus \in 1 .. MaxGridCpus : SplitRows(cpus)
    \/ Dispatch
    \/ \E b \in 1 .. NumProcesses(MaxGridCpus) : WorkerFinish(b)
    \/ \E b \in 1 .. NumProcesses(MaxGridCpus) : WorkerFail(b)
    \/ Collect
    \/ ReshapeField

SpecGrid == InitGrid /\ [][NextGrid]_vars

\* the Field of a single band holding every row
SequentialField ==
    Reshape(mandelbrot_for_parallel(xmin, xmax, ymin, ymax, threshold,
                                    [m \in 1 .. resolution |-> m - 1]))

\* C2: the bands concatenated in the order of submission and reshaped are,
\* element for element, the Field of a single band of all rows, whatever the
\* order in which the workers finish, and resolution^2 counts are collected.
C2_ParallelSequential ==
    /\ gpc = "collected" => Len(complete_parray) = resolution * resolution
    /\ gpc = "done" => complete_parray = SequentialField

\* three bands of one row each, the last finished before the first, and rows
\* that differ
C2_Witness ==
    /\ gpc = "done"
    /\ resolution = 3 /\ num_processes = 3
    /\ complete_parray = SequentialField
    /\ complete_parray[1] # complete_parray[2]
    /\ complete_parray[2] # complete_parray[3]
    /\ complete_parray[1] # complete_parray[3]

-----------------------------------------------------------------------------
(* The interactive session: the main method's first plot, then onclick *)

\* threshold = 70 and add_thresh = 50 of the interactive main method
initial_threshold == 70
add_thresh == 50

Max(a, b) == IF a > b THEN a ELSE b

\* 1.5 on the grid
OneAndHalf == (3 * Scale) \div 2

\* the view a Field is computed from
View(x0, x1, y0, y1, thr) ==
    [xmin |-> x0, xmax |-> x1, ymin |-> y0, ymax |-> y1, threshold |-> thr]

\* zoom after a click: zoom*2 on the left button, int(zoom/2) on the right
ClickZoom(button, z) ==
    IF button = 1 THEN z * 2
    ELSE IF button = 3 THEN z \div 2
    ELSE z

\* A right click that leaves the threshold where the left click put it.
ClickThresholdNoDecrease(button, thr) ==
    IF button = 1 THEN thr + add_thresh ELSE thr

\* A right click that lowers the threshold whatever is left of it.
ClickThresholdNoFloor(button, thr) ==
    IF button = 1 THEN thr + add_thresh
    ELSE IF button = 3 THEN thr - add_thresh
    ELSE thr

\* threshold after a click
ClickThreshold(button, thr) ==
    IF button = 1 THEN thr + add_thresh
    ELSE IF button = 3 /\ thr > add_thresh THEN thr - add_thresh
    ELSE thr

\* xmin + (xmax-xmin)*event.xdata/resolution
ClickPoint(lo, hi, data) == lo + RoundDiv(FMul(hi - lo, data), resolution)

\* 1.5/zoom, for zoom # 0, as it enters the sums posx -/+ 1.5/zoom: once it
\* is below half a grid step it rounds to 0, as a double-precision sum
\* absorbs a term below half the spacing of the doubles at posx
HalfExtent(z) == RoundDiv(OneAndHalf, z)

\* where a click can land: the centre of a corner pixel of the image, or
\* outside the axes, where matplotlib gives xdata = ydata = None
ClickCoords == {Fix(0), Fix(resolution - 1)}
ClickPositions ==
    {[inaxes |-> TRUE, xdata |-> x, ydata |-> y] : x \in ClickCoords, y \in ClickCoords}
    \cup {[inaxes |-> FALSE, xdata |-> 0, ydata |-> 0]}

\* the last two of a sequence
LastTwo(q) == IF Len(q) <= 2 THEN q ELSE SubSeq(q, Len(q) - 1, Len(q))

\* onclick(event).  redrawn: whether the parallel redraw succeeds.  The
\* handler stops at the first statement that raises: the position of a click
\* outside the axes cannot be computed (TypeError), and 1.5/zoom raises
\* ZeroDivisionError when zoom is 0.
OnclickBody(button, pos, redrawn) ==
    LET z    == ClickZoom(button, zoom)
        t    == ClickThreshold(button, threshold)
        posx == ClickPoint(xmin, xmax, pos.xdata)
        posy == ClickPoint(ymin, ymax, pos.ydata)
        outcome == IF ~pos.inaxes THEN "TypeError"
                   ELSE IF z = 0 THEN "ZeroDivisionError"
                   ELSE IF ~redrawn THEN "WorkerFailure"
                   ELSE "drawn"
    IN  /\ (~pos.inaxes \/ z = 0) => redrawn
        /\ nclicks' = nclicks + 1
        /\ zoom' = z
        /\ threshold' = t
        /\ IF outcome \in {"TypeError", "ZeroDivisionError"}
              THEN UNCHANGED <<xmin, xmax, ymin, ymax, shown>>
              ELSE /\ xmin' = posx - HalfExtent(z)
                   /\ xmax' = posx + HalfExtent(z)
                   /\ ymin' = posy - HalfExtent(z)
                   /\ ymax' = posy + HalfExtent(z)
                   /\ shown' = IF redrawn
                                 THEN View(xmin', xmax', ymin', ymax', t)
                                 ELSE shown
        /\ events' = LastTwo(Append(events,
                [button |-> button, inaxes |-> pos.inaxes,
                 xdata |-> pos.xdata, ydata |-> pos.ydata,
                 zoom |-> zoom, threshold |-> threshold,
                 xmin |-> xmin, xmax |-> xmax, ymin |-> ymin, ymax |-> ymax,
                 outcome |-> outcome]))
        /\ UNCHANGED <<resolution, num_processes, yranges>>
        /\ UNCHANGED <<kernelVars, gridVars, animVars>>

\* a click of a session of at most MaxClicks clicks
Onclick(button, pos, redrawn) ==
    /\ nclicks < MaxClicks
    /\ OnclickBody(button, pos, redrawn)

\* a left or right click inside the plot whose redraw succeeds, in a session
\* of at most MaxDeepClicks such clicks
ClickInside(button, pos) ==
    /\ nclicks < MaxDeepClicks
    /\ button \in {1, 3}
    /\ pos.inaxes
    /\ OnclickBody(button, pos, TRUE)

\* the state in which plt.show() starts delivering events
InitClick ==
    /\ resolution = MaxRes
    /\ threshold = initial_threshold
    /\ zoom = 1
    /\ xmin = Fix(0 - 2) /\ xmax = Fix(1)
    /\ ymin = 0 - OneAndHalf /\ ymax = OneAndHalf
    /\ num_processes = NumProcesses(1)
    /\ yranges = ArraySplit(resolution, num_processes)
    /\ shown = View(xmin, xmax, ymin, ymax, threshold)
    /\ events = <<>>
    /\ nclicks = 0
    /\ KernelIdle /\ GridIdle /\ AnimIdle

\* the buttons: left, middle, right
Buttons == {1, 2, 3}

NextClick ==
    \E button \in Buttons, pos \in ClickPositions, redrawn \in BOOLEAN :
        Onclick(button, pos, redrawn)

SpecClick == InitClick /\ [][NextClick]_vars

NextDeep ==
    \E button \in Buttons, pos \in ClickPositions : ClickInside(button, pos)

\* sessions of left and right clicks inside the plot
SpecDeep == InitClick /\ [][NextDeep]_vars

LastEvent == events[Len(events)]

\* C8: the zoom level is at least 1 after any clicks; a right click sets it
\* to max(1, zoom/2), and the bounds can then be recomputed as centre +/-
\* 1.5/zoom.
C8_ZoomFloor ==
    /\ zoom >= 1
    /\ events # <<>> /\ LastEvent.button = 3 =>
          /\ zoom = Max(1, LastEvent.zoom \div 2)
          /\ LastEvent.outcome # "ZeroDivisionError"

\* C9: from zoom >= 1 and threshold > 0, a left click followed by a right
\* click at the same pixel returns zoom and threshold to their values before
\* the left click.
C9_LeftThenRight ==
    ( /\ Len(events) = 2
      /\ events[1].button = 1 /\ events[2].button = 3
      /\ events[1].inaxes /\ events[2].inaxes
      /\ events[1].xdata = events[2].xdata /\ events[1].ydata = events[2].ydata
      /\ events[1].zoom >= 1 /\ events[1].threshold > 0 )
    => (zoom = events[1].zoom /\ threshold = events[1].threshold)

C9_Witness ==
    /\ Len(events) = 2
    /\ events[1].button = 1 /\ events[2].button = 3
    /\ events[1].inaxes /\ events[2].inaxes
    /\ events[1].xdata = events[2].xdata /\ events[1].ydata = events[2].ydata
    /\ events[1].zoom = 2 /\ events[1].threshold = initial_threshold + add_thresh
    /\ events[2].zoom = 4
    /\ zoom = 2 /\ threshold = initial_threshold + add_thresh

\* C10: after a click at a plot position, the bounds are centred on the
\* clicked point computed from the bounds before the click, with half-width
\* and half-height 1.5 / (zoom after the click).
C10_ClickRecentring ==
    (events # <<>> /\ LastEvent.inaxes) =>
        /\ zoom > 0
        /\ xmin + xmax = 2 * ClickPoint(LastEvent.xmin, LastEvent.xmax, LastEvent.xdata)
        /\ ymin + ymax = 2 * ClickPoint(LastEvent.ymin, LastEvent.ymax, LastEvent.ydata)
        /\ xmax - xmin = 2 * HalfExtent(zoom)
        /\ ymax - ymin = 2 * HalfExtent(zoom)

\* C13: a grid evaluation asked for with malformed bounds (xmin >= xmax or
\* ymin >= ymax) is refused before any band is dispatched: no click is drawn
\* from such bounds, and the Field on display was computed from bounds with
\* xmin < xmax and ymin < ymax.
C13_InvalidViewportFailsFast ==
    /\ shown.xmin < shown.xmax /\ shown.ymin < shown.ymax
    /\ (events # <<>> /\ LastEvent.outcome = "drawn") => (xmin < xmax /\ ymin < ymax)

C17_ClickAtomic ==
    (events # <<>> /\ LastEvent.outcome # "drawn") =>
        /\ zoom = LastEvent.zoom
        /\ threshold = LastEvent.threshold
        /\ xmin = LastEvent.xmin /\ xmax = LastEvent.xmax
        /\ ymin = LastEvent.ymin /\ ymax = LastEvent.ymax

-----------------------------------------------------------------------------
(* The animation: runs of the main method over one AnimatedFrames folder.   *)
(* A file is "none" (no such file), "partial" (opened by plt.savefig and    *)
(* not yet written out) or "complete".  The frame file_name is named by its *)
(* index.                                                                   *)

Runs == {"A", "B"}

MaxFrames == MaxZoomExp * FramesPerOctave
FrameIds  == 0 .. MaxFrames - 1

\* the pc values of a run that is in its frame loop
Active == {"check", "animate", "save", "writing", "assemble"}

\* int(np.log2(zoom)/delta) for zoom = 2^e
NumFrames(e) == e * FramesPerOctave

\* A frame loop that renders whatever the folder holds.
NeedsRenderAlways(fileState) == TRUE

\* not os.path.exists(file_name)
NeedsRender(fileState) == fileState = "none"

\* A loop that records the file name only of the frames it rendered itself.
RecordFrameOnlyRendered(r) ==
    /\ frames' = IF i[r] \in rendered[r]
                   THEN [frames EXCEPT ![r][i[r] + 1] = i[r]]
                   ELSE frames
    /\ i' = [i EXCEPT ![r] = i[r] + 1]
    /\ pc' = [pc EXCEPT ![r] = IF i[r] + 1 = num_frames[r] THEN "assemble" ELSE "check"]

\* frames[i] = file_name, and the loop moves on
RecordFrame(r) ==
    /\ frames' = [frames EXCEPT ![r][i[r] + 1] = i[r]]
    /\ i' = [i EXCEPT ![r] = i[r] + 1]
    /\ pc' = [pc EXCEPT ![r] = IF i[r] + 1 = num_frames[r] THEN "assemble" ELSE "check"]

\* the program is started with zoom = 2^e: frames = [None]*num_frames (None
\* is -1 here); os.makedirs leaves the folder as it is when it exists
StartRun(r, e) ==
    /\ pc[r] \notin Active
    /\ starts < MaxStarts
    /\ starts' = starts + 1
    /\ num_frames' = [num_frames EXCEPT ![r] = NumFrames(e)]
    /\ frames' = [frames EXCEPT ![r] = [j \in 1 .. NumFrames(e) |-> 0 - 1]]
    /\ i' = [i EXCEPT ![r] = 0]
    /\ rendered' = [rendered EXCEPT ![r] = {}]
    /\ pc' = [pc EXCEPT ![r] = IF NumFrames(e) = 0 THEN "assemble" ELSE "check"]
    /\ UNCHANGED files
    /\ UNCHANGED <<kernelVars, globalVars, gridVars, clickVars, new_view, img>>

\* the program is started while no other run of it is going
StartRunAlone(r, e) ==
    /\ \A q \in Runs : pc[q] \notin Active
    /\ StartRun(r, e)

\* if not os.path.exists(file_name): the frame is rendered (animate(i) is
\* called), or it is skipped and its name recorded
CheckFrame(r) ==
    /\ pc[r] = "check"
    /\ IF NeedsRender(files[i[r]])
          THEN /\ pc' = [pc EXCEPT ![r] = "animate"]
               /\ rendered' = [rendered EXCEPT ![r] = rendered[r] \cup {i[r]}]
               /\ UNCHANGED <<frames, i>>
          ELSE RecordFrame(r) /\ UNCHANGED rendered
    /\ UNCHANGED <<files, num_frames, starts>>
    /\ UNCHANGED <<kernelVars, globalVars, gridVars, clickVars, new_view, img>>

\* animate(i) returns
AnimateDone(r) ==
    /\ pc[r] = "animate"
    /\ pc' = [pc EXCEPT ![r] = "save"]
    /\ UNCHANGED <<files, i, num_frames, frames, rendered, starts>>
    /\ UNCHANGED <<kernelVars, globalVars, gridVars, clickVars, new_view, img>>

\* animate(i) raises (a worker fails): the exception ends the run
AnimateFail(r) ==
    /\ pc[r] = "animate"
    /\ pc' = [pc EXCEPT ![r] = "failed"]
    /\ UNCHANGED <<files, i, num_frames, frames, rendered, starts>>
    /\ UNCHANGED <<kernelVars, globalVars, gridVars, clickVars, new_view, img>>

\* plt.savefig(file_name) opens the file for writing: it now exists, empty
SaveOpen(r) ==
    /\ pc[r] = "save"
    /\ files' = [files EXCEPT ![i[r]] = "partial"]
    /\ pc' = [pc EXCEPT ![r] = "writing"]
    /\ UNCHANGED <<i, num_frames, frames, rendered, starts>>
    /\ UNCHANGED <<kernelVars, globalVars, gridVars, clickVars, new_view, img>>

\* plt.savefig(file_name) writes the image out and returns
SaveClose(r) ==
    /\ pc[r] = "writing"
    /\ files' = [files EXCEPT ![i[r]] = "complete"]
    /\ RecordFrame(r)
    /\ UNCHANGED <<num_frames, rendered, starts>>
    /\ UNCHANGED <<kernelVars, globalVars, gridVars, clickVars, new_view, img>>

\* plt.savefig(file_name) raises while writing (the disk is full), or the
\* run is interrupted there: what was written stays in the folder
WriteFail(r) ==
    /\ pc[r] = "writing"
    /\ pc' = [pc EXCEPT ![r] = "failed"]
    /\ UNCHANGED <<files, i, num_frames, frames, rendered, starts>>
    /\ UNCHANGED <<kernelVars, globalVars, gridVars, clickVars, new_view, img>>

\* APNG.from_files(frames, delay=40).save('mandelbrot_zoom.png')
Assemble(r) ==
    /\ pc[r] = "assemble"
    /\ pc' = [pc EXCEPT ![r] = "done"]
    /\ UNCHANGED <<files, i, num_frames, frames, rendered, starts>>
    /\ UNCHANGED <<kernelVars, globalVars, gridVars, clickVars, new_view, img>>

InitAnim ==
    /\ files = [j \in FrameIds |-> "none"]
    /\ pc = [r \in Runs |-> "idle"]
    /\ i = [r \in Runs |-> 0]
    /\ num_frames = [r \in Runs |-> 0]
    /\ frames = [r \in Runs |-> <<>>]
    /\ rendered = [r \in Runs |-> {}]
    /\ starts = 0
    /\ new_view = <<>> /\ img = <<>>
    /\ KernelIdle /\ GlobalsIdle /\ GridIdle /\ ClickIdle

FrameLoop(r) ==
    \/ CheckFrame(r)
    \/ AnimateDone(r)
    \/ AnimateFail(r)
    \/ SaveOpen(r)
    \/ SaveClose(r)
    \/ WriteFail(r)
    \/ Assemble(r)

\* runs one after another: the program is started again only when the run
\* before it has ended
NextResume ==
    \E r \in Runs :
        \/ \E e \in 0 .. MaxZoomExp : StartRunAlone(r, e)
        \/ FrameLoop(r)

SpecResume == InitAnim /\ [][NextResume]_vars

\* runs that may overlap in time
NextShared ==
    \E r \in Runs :
        \/ \E e \in 0 .. MaxZoomExp : StartRun(r, e)
        \/ FrameLoop(r)

SpecShared == InitAnim /\ [][NextShared]_vars

\* C1: over runs one after another, animate is invoked for frame i only if
\* no artifact exists for i when the driver reaches i; a frame whose artifact
\* exists is skipped, so every frame a run recorded without rendering it had
\* its artifact already.
C1_Resumability ==
    \A r \in Runs :
        /\ pc[r] \in {"animate", "save"} => files[i[r]] = "none"
        /\ \A j \in 0 .. i[r] - 1 : j \notin rendered[r] => files[j] # "none"
        /\ \A j \in rendered[r] : j < i[r] => files[j] = "complete"

\* a run asked for four frames finds frames 0 and 1 complete, skips them and
\* renders frame 2
C1_Witness ==
    \E r \in Runs :
        /\ num_frames[r] = 4
        /\ pc[r] = "animate" /\ i[r] = 2 /\ rendered[r] = {2}
        /\ files[0] = "complete" /\ files[1] = "complete" /\ files[2] = "none"
        /\ frames[r][1] = 0 /\ frames[r][2] = 1

\* C4: under any interleaving of runs that share the folder, no run writes
\* to a frame location at which an artifact already exists.
C4_WriteOnce ==
    [][\A r \in Runs :
          (pc[r] = "save" /\ pc'[r] = "writing") => files[i[r]] = "none"]_vars

\* C5: a frame is skipped only because of a completely written artifact;
\* a run whose rendering or saving of frame i fails halts without recording
\* the frame.
C5_SkipOnlyComplete ==
    \A r \in Runs :
        /\ pc[r] = "failed" => frames[r][i[r] + 1] = 0 - 1
        /\ \A j \in 0 .. i[r] - 1 : j \notin rendered[r] => files[j] = "complete"

\* C11: the assembler is invoked only after every frame index below
\* num_frames has been resolved, and it receives exactly num_frames
\* locations, position i holding the location of frame i.  (A run is at
\* "assemble" when it is about to pass frames to APNG.from_files, and at
\* "done" when it has.)
C11_OrderedHandOff ==
    \A r \in Runs :
        pc[r] \in {"assemble", "done"} =>
            /\ i[r] = num_frames[r]
            /\ frames[r] = [j \in 1 .. num_frames[r] |-> j - 1]
            /\ \A j \in 0 .. num_frames[r] - 1 : files[j] # "none"

\* a run of four frames, two found in the folder and two rendered, has
\* handed all four to the assembler
C11_Witness ==
    \E r \in Runs :
        /\ pc[r] = "done" /\ num_frames[r] = 4
        /\ rendered[r] = {2, 3}
        /\ frames[r] = <<0, 1, 2, 3>>

-----------------------------------------------------------------------------
(* One run of the animation with animate(i) carried out: the view of the    *)
(* frame, the executor.map block on it, and ax.imshow.  delta is            *)
(* 1/FramesPerOctave, taken exactly.                                        *)

\* threshold = 70
anim_threshold == 70
\* the rate of new_threshold = threshold + int(delta*i*50)
thresh_rate == 50

\* p_re and p_im on the grid
p_re == RoundDiv(360240 * Scale, 1000000)
p_im == 0 - RoundDiv(641313 * Scale, 1000000)

RECURSIVE PowInt(_, _)
PowInt(b, n) == IF n <= 0 THEN 1 ELSE b * PowInt(b, n - 1)

\* 2**(delta*k): the grid value nearest to 2^(k/FramesPerOctave)
ZoomFactor(k) ==
    LET target == PowInt(2 * Scale, FramesPerOctave) * Pow2(k)
    IN  CHOOSE r \in Scale .. Scale * Pow2((k \div FramesPerOctave) + 1) :
            /\ PowInt(2 * r - 1, FramesPerOctave) <= target
            /\ target < PowInt(2 * r + 1, FramesPerOctave)

\* 0.5*(hi-lo)*(1-1/2**(delta*k))
Inset(lo, hi, k) ==
    FMul(FMul(Scale \div 2, hi - lo),
         Fix(1) - RoundDiv(Scale * Scale, ZoomFactor(k)))

\* new_xmin, new_xmax, new_ymin, new_ymax and new_threshold of animate(k)
animate_view(x0, x1, y0, y1, thr, k) ==
    View(x0 + Inset(x0, x1, k), x1 - Inset(x0, x1, k),
         y0 + Inset(y0, y1, k), y1 - Inset(y0, y1, k),
         thr + ((k * thresh_rate) \div FramesPerOctave))

\* A step that keeps the bounds and threshold it computed (a running zoom).
GlobalsAfterAnimateStored(g, nv) == nv

\* xmin, xmax, ymin, ymax and threshold after animate(i): declared global,
\* read, and never assigned
GlobalsAfterAnimate(g, nv) == g

\* animate(i) up to executor.map(...): the view of frame i, and one call per
\* band submitted in the order of yranges
AnimateDispatch(r) ==
    /\ pc[r] = "animate"
    /\ gpc = "idle"
    /\ LET nv == animate_view(xmin, xmax, ymin, ymax, threshold, i[r])
           g  == GlobalsAfterAnimate(View(xmin, xmax, ymin, ymax, threshold), nv)
       IN  /\ new_view' = nv
           /\ xmin' = g.xmin /\ xmax' = g.xmax
           /\ ymin' = g.ymin /\ ymax' = g.ymax
           /\ threshold' = g.threshold
    /\ futures' = [b \in 1 .. Len(yranges) |-> [state |-> "running", result |-> <<>>]]
    /\ collected' = <<>>
    /\ complete_parray' = <<>>
    /\ gpc' = "collecting"
    /\ UNCHANGED <<resolution, num_processes, yranges>>
    /\ UNCHANGED <<files, pc, i, num_frames, frames, rendered, starts, img>>
    /\ UNCHANGED <<kernelVars, clickVars>>

\* a worker returns the band it was given, computed on the view of the frame
FrameWorkerFinish(b) ==
    /\ gpc = "collecting"
    /\ new_view # <<>>
    /\ b \in 1 .. Len(futures)
    /\ futures[b].state = "running"
    /\ futures' = [futures EXCEPT ![b] =
            [state |-> "done",
             result |-> mandelbrot_for_parallel(new_view.xmin, new_view.xmax,
                                                new_view.ymin, new_view.ymax,
                                                new_view.threshold, yranges[b])]]
    /\ UNCHANGED <<clickVars, animVars, kernelVars, globalVars, gpc, collected, complete_parray>>

\* img = ax.imshow(complete_parray, ...), and animate(i) returns
AnimateShow(r) ==
    /\ pc[r] = "animate"
    /\ gpc = "done"
    /\ img' = complete_parray
    /\ pc' = [pc EXCEPT ![r] = "save"]
    /\ gpc' = "idle" /\ futures' = <<>>
    /\ collected' = <<>> /\ complete_parray' = <<>>
    /\ new_view' = <<>>
    /\ UNCHANGED <<files, i, num_frames, frames, rendered, starts>>
    /\ UNCHANGED <<kernelVars, globalVars, clickVars>>

\* A step that carries on with what was collected when a band has failed.
AnimateSwallow(r) ==
    /\ pc[r] = "animate"
    /\ gpc = "failed"
    /\ img' = complete_parray
    /\ pc' = [pc EXCEPT ![r] = "save"]
    /\ UNCHANGED <<files, i, num_frames, frames, rendered, starts, new_view>>
    /\ UNCHANGED <<kernelVars, globalVars, gridVars, clickVars>>

\* the exception of a failed band (or of np.reshape) leaves animate(i) and,
\* caught nowhere, ends the run
AnimateRaise(r) ==
    /\ pc[r] = "animate"
    /\ gpc = "failed"
    /\ pc' = [pc EXCEPT ![r] = "failed"]
    /\ UNCHANGED <<files, i, num_frames, frames, rendered, starts, new_view, img>>
    /\ UNCHANGED <<kernelVars, globalVars, gridVars, clickVars>>

\* the grid sides and os.cpu_count() values tried
BatchResolutions == {2, 3}
BatchCpus == {1, 2}

\* the frames an earlier run may have left in the folder
FoundFrames == SUBSET (FrameIds \cap (0 .. 2))

\* the run followed
TheRun == "A"

\* the configuration the main method starts from
StartView ==
    View(p_re - OneAndHalf, p_re + OneAndHalf,
         p_im - OneAndHalf, p_im + OneAndHalf, anim_threshold)

InitBatch ==
    /\ resolution \in BatchResolutions
    /\ threshold = StartView.threshold
    /\ xmin = StartView.xmin /\ xmax = StartView.xmax
    /\ ymin = StartView.ymin /\ ymax = StartView.ymax
    /\ \E cpus \in BatchCpus :
          /\ num_processes = NumProcesses(cpus)
          /\ yranges = ArraySplit(resolution, NumProcesses(cpus))
    /\ \E found \in FoundFrames :
          files = [j \in FrameIds |-> IF j \in found THEN "complete" ELSE "none"]
    /\ pc = [r \in Runs |-> "idle"]
    /\ i = [r \in Runs |-> 0]
    /\ num_frames = [r \in Runs |-> 0]
    /\ frames = [r \in Runs |-> <<>>]
    /\ rendered = [r \in Runs |-> {}]
    /\ starts = 0
    /\ new_view = <<>> /\ img = <<>>
    /\ KernelIdle /\ GridIdle /\ ClickIdle

\* the program is started once
StartOnce(r, e) ==
    /\ starts = 0
    /\ StartRunAlone(r, e)

NextBatch ==
    \/ \E e \in 0 .. MaxZoomExp : StartOnce(TheRun, e)
    \/ CheckFrame(TheRun)
    \/ AnimateDispatch(TheRun)
    \/ \E cpus \in BatchCpus : \E b \in 1 .. NumProcesses(cpus) : FrameWorkerFinish(b)
    \/ \E cpus \in BatchCpus : \E b \in 1 .. NumProcesses(cpus) : WorkerFail(b)
    \/ Collect
    \/ ReshapeField
    \/ AnimateShow(TheRun)
    \/ AnimateRaise(TheRun)
    \/ SaveOpen(TheRun)
    \/ SaveClose(TheRun)
    \/ WriteFail(TheRun)
    \/ Assemble(TheRun)

SpecBatch == InitBatch /\ [][NextBatch]_vars

\* C12: grid evaluation is all-or-nothing.  A Field is collected only when
\* every band was evaluated, and what is passed to ax.imshow is a whole
\* resolution x resolution Field; once a band has failed the evaluation
\* stays failed (no band is dispatched again), nothing more is displayed, no
\* artifact is written, the frame is not recorded, and the run only stops.
C12_AllOrNothing ==
    /\ [](/\ gpc \in {"collected", "done"} =>
                \A b \in 1 .. Len(futures) : futures[b].state = "done"
          /\ img # <<>> =>
                /\ Len(img) = resolution
                /\ \A row \in 1 .. resolution : Len(img[row]) = resolution
          /\ \A r \in Runs :
                (gpc = "failed" /\ pc[r] \in {"animate", "failed"}) =>
                    /\ files[i[r]] = "none"
                    /\ frames[r][i[r] + 1] = 0 - 1)
    /\ [][gpc = "failed" =>
            /\ gpc' = "failed" /\ futures' = futures
            /\ complete_parray' = complete_parray
            /\ img' = img /\ files' = files /\ frames' = frames /\ i' = i
            /\ \A r \in Runs :
                  /\ pc'[r] \in {pc[r], "failed"}
                  /\ pc[r] = "failed" => pc'[r] = "failed"]_vars

\* frame 0 was rendered and saved; at frame 1 one band was evaluated and
\* another failed, and the run has stopped with no artifact for frame 1
C12_Witness ==
    /\ gpc = "failed" /\ pc[TheRun] = "failed"
    /\ i[TheRun] = 1 /\ rendered[TheRun] = {0, 1}
    /\ files[0] = "complete" /\ files[1] = "none"
    /\ \E b \in 1 .. Len(futures) : futures[b].state = "done"
    /\ \E b \in 1 .. Len(futures) : futures[b].state = "failed"
    /\ img # <<>>

\* C16: animate(i) leaves the starting bounds and threshold as they were, so
\* the view and threshold of frame i are those computed from the starting
\* configuration and i, whichever earlier frames this run rendered or
\* skipped.
C16_AnimateDeterminism ==
    /\ View(xmin, xmax, ymin, ymax, threshold) = StartView
    /\ \A r \in Runs :
          (pc[r] = "animate" /\ gpc # "idle") =>
              new_view = animate_view(StartView.xmin, StartView.xmax,
                                      StartView.ymin, StartView.ymax,
                                      StartView.threshold, i[r])

\* frame 0 was rendered, frame 1 was found in the folder and skipped, and
\* frame 2 is being evaluated on a view narrower than the starting one
C16_Witness ==
    /\ pc[TheRun] = "animate" /\ gpc = "collecting"
    /\ i[TheRun] = 2 /\ rendered[TheRun] = {0, 2}
    /\ new_view.xmin > StartView.xmin /\ new_view.xmax < StartView.xmax
    /\ new_view.threshold > StartView.threshold
    /\ View(xmin, xmax, ymin, ymax, threshold) = StartView

=============================================================================
